---------------------------- MODULE Spec2Model ----------------------------
(***************************************************************************)
(* A model of the two probabilistic structures of the repository:          *)
(*   src/task1/main.py  BloomFilter and check_password_uniqueness          *)
(*   src/task2/main.py  HyperLogLog, the JSON-lines log reader and the     *)
(*                      two streaming counters                            *)
(* TLC's integers are 32-bit signed, so a 32-bit unsigned word is kept as  *)
(* a pair <<hi, lo>> of 16-bit halves and a 64-bit hash as a sequence of   *)
(* 64 bits, most significant first.                                        *)
(***************************************************************************)
EXTENDS Integers, Sequences, FiniteSets, TLC

(***************************************************************************)
(* 32-bit unsigned arithmetic on <<hi, lo>> pairs (the C arithmetic of     *)
(* MurmurHash3_x86_32, which mmh3.hash runs).                              *)
(***************************************************************************)
RECURSIVE XorBits(_, _, _)
XorBits(a, b, n) ==
    IF n = 0 THEN 0
    ELSE ((a + b) % 2) + 2 * XorBits(a \div 2, b \div 2, n - 1)

Xor32(a, b) == <<XorBits(a[1], b[1], 16), XorBits(a[2], b[2], 16)>>

\* (a * b) mod 2^16 and (a * b) div 2^16 for 16-bit a, b, without leaving 31 bits
MulLo16(a, b) ==
    ((a % 256) * b + (((a \div 256) * b) % 256) * 256) % 65536

MulHi16(a, b) ==
    ((a % 256) * b + (((a \div 256) * b) % 256) * 256) \div 65536
        + ((a \div 256) * b) \div 256

\* (a * b) mod 2^32
Mul32(a, b) ==
    << (MulHi16(a[2], b[2]) + MulLo16(a[1], b[2]) + MulLo16(a[2], b[1])) % 65536,
       MulLo16(a[2], b[2]) >>

\* (a + b) mod 2^32
Add32(a, b) ==
    << (a[1] + b[1] + ((a[2] + b[2]) \div 65536)) % 65536,
       (a[2] + b[2]) % 65536 >>

\* (a << n) mod 2^32 and a >> n, 0 < n < 32
Shl32(a, n) ==
    IF n >= 16
    THEN << (a[2] % (2 ^ (32 - n))) * (2 ^ (n - 16)), 0 >>
    ELSE << (a[1] % (2 ^ (16 - n))) * (2 ^ n) + (a[2] \div (2 ^ (16 - n))),
            (a[2] % (2 ^ (16 - n))) * (2 ^ n) >>

Shr32(a, n) ==
    IF n >= 16
    THEN << 0, a[1] \div (2 ^ (n - 16)) >>
    ELSE << a[1] \div (2 ^ n),
            (a[2] \div (2 ^ n)) + (a[1] % (2 ^ n)) * (2 ^ (16 - n)) >>

\* rotate left: the two shifted parts share no bit, so | is +
Rotl32(a, r) ==
    << Shl32(a, r)[1] + Shr32(a, 32 - r)[1], Shl32(a, r)[2] + Shr32(a, 32 - r)[2] >>

\* h mod n for a 32-bit word h and 0 < n <= 2^15
Mod32(h, n) == ((h[1] % n) * (65536 % n) + h[2]) % n

(***************************************************************************)
(* MurmurHash3_x86_32 over a sequence of bytes (mmh3.hash(s, seed,         *)
(* signed=False) after the UTF-8 encoding of s).                           *)
(***************************************************************************)
MurmurC1 == <<52382, 11601>>   \* 0xcc9e2d51
MurmurC2 == <<7047, 13715>>    \* 0x1b873593
MurmurN  == <<58964, 27492>>   \* 0xe6546b64
MurmurF1 == <<34283, 51819>>   \* 0x85ebca6b
MurmurF2 == <<49842, 44597>>   \* 0xc2b2ae35

\* the scrambled block k: k *= c1; k = rotl(k, 15); k *= c2
MurmurScramble(k) == Mul32(Rotl32(Mul32(k, MurmurC1), 15), MurmurC2)

\* the little-endian 32-bit block of bytes n .. n+3
MurmurBlock(bytes, n) ==
    << bytes[n + 3] * 256 + bytes[n + 2], bytes[n + 1] * 256 + bytes[n] >>

RECURSIVE MurmurBody(_, _, _)
MurmurBody(h, bytes, n) ==
    IF n + 3 > Len(bytes) THEN h
    ELSE MurmurBody(
            Add32(Mul32(Rotl32(Xor32(h, MurmurScramble(MurmurBlock(bytes, n))), 13),
                        <<0, 5>>),
                  MurmurN),
            bytes, n + 4)

\* the 1..3 bytes left after the last whole block
MurmurTail(h, bytes) ==
    LET nb   == (Len(bytes) \div 4) * 4
        rest == Len(bytes) - nb
        k    == << (IF rest >= 3 THEN bytes[nb + 3] ELSE 0),
                   (IF rest >= 2 THEN bytes[nb + 2] * 256 ELSE 0)
                     + (IF rest >= 1 THEN bytes[nb + 1] ELSE 0) >>
    IN  IF rest = 0 THEN h ELSE Xor32(h, MurmurScramble(k))

MurmurFmix(h0) ==
    LET h1 == Xor32(h0, Shr32(h0, 16))
        h2 == Mul32(h1, MurmurF1)
        h3 == Xor32(h2, Shr32(h2, 13))
        h4 == Mul32(h3, MurmurF2)
    IN  Xor32(h4, Shr32(h4, 16))

Murmur3(bytes, seed) ==
    MurmurFmix(Xor32(MurmurTail(MurmurBody(<<0, seed>>, bytes, 1), bytes),
                     <<0, Len(bytes)>>))

(***************************************************************************)
(* Python strings are sequences of code points.                            *)
(***************************************************************************)
\* str.isspace() of one code point
IsSpace(c) ==
    c \in (9..13) \cup (28..32) \cup {133, 160, 5760} \cup (8192..8202)
            \cup {8232, 8233, 8239, 8287, 12288}

RECURSIVE LStrip(_)
LStrip(s) ==
    IF s # <<>> /\ IsSpace(Head(s)) THEN LStrip(Tail(s)) ELSE s

RECURSIVE RStrip(_)
RStrip(s) ==
    IF s # <<>> /\ IsSpace(s[Len(s)]) THEN RStrip(SubSeq(s, 1, Len(s) - 1)) ELSE s

\* a guard that forgets strip(): only "" is rejected
strip_forgotten(s) == s

\* str.strip()
strip(s) == RStrip(LStrip(s))

\* str.encode("utf-8") of one code point (no surrogates)
Utf8Char(c) ==
    IF c < 128 THEN <<c>>
    ELSE IF c < 2048 THEN <<192 + (c \div 64), 128 + (c % 64)>>
    ELSE IF c < 65536
         THEN <<224 + (c \div 4096), 128 + ((c \div 64) % 64), 128 + (c % 64)>>
    ELSE <<240 + (c \div 262144), 128 + ((c \div 4096) % 64),
           128 + ((c \div 64) % 64), 128 + (c % 64)>>

RECURSIVE Utf8(_)
Utf8(s) == IF s = <<>> THEN <<>> ELSE Utf8Char(Head(s)) \o Utf8(Tail(s))

\* str(n) of a non-negative int: its decimal digits
RECURSIVE DecStr(_)
DecStr(n) ==
    IF n < 10 THEN <<48 + n>> ELSE Append(DecStr(n \div 10), 48 + (n % 10))

(***************************************************************************)
(* Values passed as passwords.  kind is "none" (None), "str" (a str with   *)
(* code points chars), "int" (the int num) or "obj" (any other non-str     *)
(* object, such as collections.UserString, whose str() is chars).          *)
(***************************************************************************)
PyNone    == [kind |-> "none", chars |-> <<>>, num |-> 0]
PyStr(s)  == [kind |-> "str", chars |-> s, num |-> 0]
PyInt(n)  == [kind |-> "int", chars |-> <<>>, num |-> n]
PyObj(s)  == [kind |-> "obj", chars |-> s, num |-> 0]

\* str(item) of a non-str, non-None value
str(item) == IF item.kind = "int" THEN DecStr(item.num) ELSE item.chars


(***************************************************************************)
(* Bounds of the model and the inputs it draws.                            *)
(***************************************************************************)
\* check_password_uniqueness receives at most MaxBatch items in one call
MaxBatch == 2

\* the <<size, num_hashes>> filters are created with: a single bit, less than a
\* byte, two bytes
Configs == {<<1, 1>>, <<5, 2>>, <<11, 3>>, <<0, 1>>, <<1, 0>>}

\* the seeds any of them uses
Seeds == 0..2

\* the values passed to add, contains and check_password_uniqueness:
\* None, "", "  ", "a", "\u00e9a", "10", 10, and a non-str object whose str() is
\* NBSP-space
BloomItems ==
    { PyNone, PyStr(<<>>), PyStr(<<32, 32>>), PyStr(<<97>>), PyStr(<<233, 97>>),
      PyStr(<<49, 48>>), PyInt(10), PyObj(<<160, 32>>) }

(***************************************************************************)
(* class BloomFilter.  self is [size, num_hashes, bits], bits the          *)
(* bytearray as a sequence of bytes (bits[1] is _bits[0]); raised names    *)
(* the exception the constructor raised, "no" for an object that exists.   *)
(* The arguments are integers.                                             *)
(***************************************************************************)
BloomFilter_init(size, num_hashes) ==
    IF size <= 0 \/ num_hashes <= 0
    THEN [raised |-> "ValueError", size |-> 0, num_hashes |-> 0, bits |-> <<>>]
    ELSE [raised |-> "no", size |-> size, num_hashes |-> num_hashes,
          bits |-> [b \in 1..((size + 7) \div 8) |-> 0]]

\* (byte >> k) & 1
BitOf(byte, k) == (byte \div (2 ^ k)) % 2

\* "=" written for "|=": the other bits of the byte are lost
set_bit_assign(self, idx) ==
    [self EXCEPT !.bits[(idx \div 8) + 1] = 2 ^ (idx % 8)]

\* self._bits[idx >> 3] |= (1 << (idx & 7))
set_bit(self, idx) ==
    [self EXCEPT !.bits[(idx \div 8) + 1] =
        IF BitOf(@, idx % 8) = 1 THEN @ ELSE @ + 2 ^ (idx % 8)]

\* (self._bits[idx >> 3] >> (idx & 7)) & 1
get_bit(self, idx) == BitOf(self.bits[(idx \div 8) + 1], idx % 8)

normalize(item) ==
    IF item.kind = "none" THEN <<>>
    ELSE IF item.kind = "str" THEN item.chars
    ELSE str(item)

\* mmh3.hash(s, seed, signed=False), the digests of the model's strings computed once
MurmurTable ==
    [a \in {<<normalize(it), i>> : it \in BloomItems, i \in Seeds} |->
        Murmur3(Utf8(a[1]), a[2])]

mmh3_hash(s, seed) ==
    IF <<s, seed>> \in DOMAIN MurmurTable THEN MurmurTable[<<s, seed>>]
    ELSE Murmur3(Utf8(s), seed)

\* idx of add's loop body, idx of contains' loop body
add_idx(self, s, i) == Mod32(mmh3_hash(s, i), self.size)

\* contains probing with seeds 1..k where add used 0..k-1
contains_idx_shifted(self, s, i) == Mod32(mmh3_hash(s, i + 1), self.size)

contains_idx(self, s, i) == Mod32(mmh3_hash(s, i), self.size)

\* the loop of add from seed i on
RECURSIVE add_loop(_, _, _)
add_loop(self, s, i) ==
    IF i >= self.num_hashes THEN self
    ELSE add_loop(set_bit(self, add_idx(self, s, i)), s, i + 1)

\* add: the filter after the call and the value returned
BloomFilter_add(self, item) ==
    LET s == normalize(item)
    IN  IF strip(s) = <<>> THEN [self |-> self, ret |-> FALSE]
        ELSE [self |-> add_loop(self, s, 0), ret |-> TRUE]

\* the loop of contains from seed i on
RECURSIVE contains_loop(_, _, _)
contains_loop(self, s, i) ==
    IF i >= self.num_hashes THEN TRUE
    ELSE IF get_bit(self, contains_idx(self, s, i)) = 0 THEN FALSE
    ELSE contains_loop(self, s, i + 1)

BloomFilter_contains(self, item) ==
    LET s == normalize(item)
    IN  IF strip(s) = <<>> THEN FALSE ELSE contains_loop(self, s, 0)

(***************************************************************************)
(* check_password_uniqueness.                                              *)
(***************************************************************************)
USED    == "already used"      \* "вже використаний"
UNIQUE  == "unique"            \* "унікальний"
INVALID == "invalid"           \* "некоректний (порожній/None)"

\* key = "None" if p is None else (p if isinstance(p, str) else str(p))
dict_key(p) ==
    IF p.kind = "none" THEN <<78, 111, 110, 101>>
    ELSE IF p.kind = "str" THEN p.chars
    ELSE str(p)

\* results[key] = status
dict_set(results, key, status) ==
    [k \in DOMAIN results \cup {key} |-> IF k = key THEN status ELSE results[k]]

\* if p is None or (isinstance(p, str) and p.strip() == "")
check_invalid(p) ==
    p.kind = "none" \/ (p.kind = "str" /\ strip(p.chars) = <<>>)

\* One iteration of the loop over new_passwords.  acc holds the filter, the
\* results dict, and, for the properties, the status given to each item in
\* order (labels), the bits after each item (after) and the items add was
\* called with (calls).
check_step(acc, p) ==
    LET key == dict_key(p)
    IN  IF check_invalid(p)
        THEN [acc EXCEPT !.results = dict_set(@, key, INVALID),
                         !.labels = Append(@, INVALID),
                         !.after = Append(@, acc.bloom.bits)]
        ELSE IF BloomFilter_contains(acc.bloom, p)
        THEN [acc EXCEPT !.results = dict_set(@, key, USED),
                         !.labels = Append(@, USED),
                         !.after = Append(@, acc.bloom.bits)]
        ELSE LET r == BloomFilter_add(acc.bloom, p)
             IN  [acc EXCEPT !.results = dict_set(@, key, UNIQUE),
                             !.labels = Append(@, UNIQUE),
                             !.bloom = r.self,
                             !.after = Append(@, r.self.bits),
                             !.calls = Append(@, [item |-> p, ret |-> r.ret])]

RECURSIVE check_loop(_, _, _)
check_loop(acc, new_passwords, n) ==
    IF n > Len(new_passwords) THEN acc
    ELSE check_loop(check_step(acc, new_passwords[n]), new_passwords, n + 1)

check_password_uniqueness(bloom0, new_passwords) ==
    check_loop([bloom |-> bloom0, results |-> <<>>, labels |-> <<>>,
                after |-> <<>>, calls |-> <<>>],
               new_passwords, 1)

(***************************************************************************)
(* Python ints of any size as sequences of bits, most significant first    *)
(* (leading zeros allowed): the 64-bit arithmetic of HyperLogLog.add.      *)
(***************************************************************************)
Zeros(n) == [k \in 1..n |-> 0]

\* the 8 bits of a byte, most significant first
ByteBits(b) == [k \in 1..8 |-> (b \div (2 ^ (8 - k))) % 2]

\* int.from_bytes(d, "big", signed=False)
RECURSIVE IntFromBytes(_)
IntFromBytes(d) ==
    IF d = <<>> THEN <<>> ELSE ByteBits(Head(d)) \o IntFromBytes(Tail(d))

\* x >> n
ShiftRight(x, n) == SubSeq(x, 1, Len(x) - n)

\* x << n
ShiftLeft(x, n) == x \o Zeros(n)

\* x & ((1 << 64) - 1)
Mask64(x) ==
    IF Len(x) >= 64 THEN SubSeq(x, Len(x) - 63, Len(x))
    ELSE Zeros(64 - Len(x)) \o x

IsZero(x) == \A k \in DOMAIN x : x[k] = 0

\* the index of the first 1 bit from bit k on, Len(x) + 1 if there is none
RECURSIVE FirstOne(_, _)
FirstOne(x, k) ==
    IF k > Len(x) \/ x[k] = 1 THEN k ELSE FirstOne(x, k + 1)

\* x.bit_length()
bit_length(x) == Len(x) + 1 - FirstOne(x, 1)

\* the value of a bit sequence that fits TLC's integers
RECURSIVE ToInt(_)
ToInt(x) ==
    IF x = <<>> THEN 0 ELSE 2 * ToInt(SubSeq(x, 1, Len(x) - 1)) + x[Len(x)]

\* F(x) for an argument x that is evaluated once, before F is applied, as
\* Python evaluates the argument of a call
Apply(F(_), x) == CHOOSE y \in {F(v) : v \in {x}} : TRUE

(***************************************************************************)
(* Non-negative numbers too large for TLC's integers: NLimbs limbs of 15   *)
(* bits, least significant first.  They carry the significands of the      *)
(* floats of count().                                                      *)
(***************************************************************************)
Base == 2 ^ 15

Limbs == 1..8

NLimbs == Cardinality(Limbs)

Big(n) == [k \in Limbs |->
              IF k = 1 THEN n % Base
              ELSE IF k = 2 THEN (n \div Base) % Base
              ELSE IF k = 3 THEN n \div (Base * Base)
              ELSE 0]

RECURSIVE BigAddFrom(_, _, _, _)
BigAddFrom(a, b, k, carry) ==
    IF k > NLimbs THEN <<>>
    ELSE <<(a[k] + b[k] + carry) % Base>>
            \o BigAddFrom(a, b, k + 1, (a[k] + b[k] + carry) \div Base)

BigAdd(a, b) == BigAddFrom(a, b, 1, 0)

\* a * c for 0 <= c < 2^16
RECURSIVE BigMulFrom(_, _, _, _)
BigMulFrom(a, c, k, carry) ==
    IF k > NLimbs THEN <<>>
    ELSE <<(a[k] * c + carry) % Base>>
            \o BigMulFrom(a, c, k + 1, (a[k] * c + carry) \div Base)

BigMulSmall(a, c) == BigMulFrom(a, c, 1, 0)

\* a * Base^n
BigShlLimbs(a, n) == [k \in Limbs |-> IF k <= n THEN 0 ELSE a[k - n]]

\* a * 2^n
BigShl(a, n) == BigShlLimbs(BigMulSmall(a, 2 ^ (n % 15)), n \div 15)

\* a < b
RECURSIVE BigLessFrom(_, _, _)
BigLessFrom(a, b, k) ==
    IF k = 0 THEN FALSE
    ELSE IF a[k] # b[k] THEN a[k] < b[k]
    ELSE BigLessFrom(a, b, k - 1)

BigLess(a, b) == BigLessFrom(a, b, NLimbs)

BigLeq(a, b) == ~BigLess(b, a)

BigIsZero(a) == \A k \in Limbs : a[k] = 0

\* a - b for a >= b
RECURSIVE BigSubFrom(_, _, _, _)
BigSubFrom(a, b, k, borrow) ==
    IF k > NLimbs THEN <<>>
    ELSE <<(a[k] - b[k] - borrow + Base) % Base>>
            \o BigSubFrom(a, b, k + 1, IF a[k] - b[k] - borrow < 0 THEN 1 ELSE 0)

BigSub(a, b) == BigSubFrom(a, b, 1, 0)

\* a \div Base^n
BigShrLimbs(a, n) == [k \in Limbs |-> IF k + n <= NLimbs THEN a[k + n] ELSE 0]

\* a \div 2^n
BigShr(a, n) ==
    LET b == BigShrLimbs(a, n \div 15)
        s == n % 15
    IN  [k \in Limbs |->
            (b[k] \div (2 ^ s))
              + (IF k < NLimbs THEN (b[k + 1] % (2 ^ s)) * (2 ^ (15 - s)) ELSE 0)]

\* a % 2^n
BigLowBits(a, n) ==
    [k \in Limbs |-> IF 15 * k <= n THEN a[k]
                     ELSE IF 15 * (k - 1) >= n THEN 0
                     ELSE a[k] % (2 ^ (n - 15 * (k - 1)))]

\* the number of bits of a limb
LimbBitLength(n) == CHOOSE b \in 0..15 : n < 2 ^ b /\ (b = 0 \/ n >= 2 ^ (b - 1))

\* the highest limb of a that is not 0, from limb k down; 0 if there is none
RECURSIVE TopLimb(_, _)
TopLimb(a, k) == IF k = 0 \/ a[k] # 0 THEN k ELSE TopLimb(a, k - 1)

\* the number of bits of a
BigBitLength(a) ==
    LET top == TopLimb(a, NLimbs)
    IN  IF top = 0 THEN 0 ELSE 15 * (top - 1) + LimbBitLength(a[top])

(***************************************************************************)
(* Python floats (IEEE 754 binary64) that are not negative, as count()     *)
(* computes with them: [m, e] is m * 2^e, with m = 0 or 2^52 <= m < 2^53.  *)
(* Every operation rounds to nearest, ties to even.  The exponents count() *)
(* meets are far from the overflow and subnormal ranges.                   *)
(***************************************************************************)
FZero == [m |-> Big(0), e |-> 0]

\* the float nearest to M * 2^e
FRound(M, e) ==
    LET bl == BigBitLength(M)
        s  == bl - 53
        q  == BigShr(M, s)
        r  == BigLowBits(M, s)
        h  == BigShl(Big(1), s - 1)
        up == BigLess(h, r) \/ (r = h /\ q[1] % 2 = 1)
        q2 == IF up THEN BigAdd(q, Big(1)) ELSE q
    IN  IF bl = 0 THEN FZero
        ELSE IF bl <= 53 THEN [m |-> BigShl(M, 53 - bl), e |-> e - (53 - bl)]
        ELSE IF BigBitLength(q2) > 53 THEN [m |-> BigShr(q2, 1), e |-> e + s + 1]
        ELSE [m |-> q2, e |-> e + s]

\* float(n) of a small int
FInt(n) == FRound(Big(n), 0)

FOne == FInt(1)

\* a * 2^k, which is exact
FScale(a, k) == IF BigIsZero(a.m) THEN a ELSE [a EXCEPT !.e = @ + k]

\* a < b and a <= b
FLess(a, b) ==
    IF BigIsZero(b.m) THEN FALSE
    ELSE IF BigIsZero(a.m) THEN TRUE
    ELSE a.e < b.e \/ (a.e = b.e /\ BigLess(a.m, b.m))

FLeq(a, b) == ~FLess(b, a)

\* a + b; an operand below a quarter of the other's last place is absorbed
FAdd(a, b) ==
    IF BigIsZero(a.m) THEN b
    ELSE IF BigIsZero(b.m) THEN a
    ELSE IF a.e - b.e > 60 THEN a
    ELSE IF b.e - a.e > 60 THEN b
    ELSE LET lo == IF a.e < b.e THEN a.e ELSE b.e
         IN  FRound(BigAdd(BigShl(a.m, a.e - lo), BigShl(b.m, b.e - lo)), lo)

\* one digit of the long division of r by b in base 2^15, for r < b * 2^15
\* and b of four limbs with the top one at least 2^14: the digit estimated
\* from the top limbs is at most 2 above the digit
DivDigit(r, b) ==
    LET est == (r[5] * Base + r[4]) \div b[4]
        d0  == IF est >= Base THEN Base - 1 ELSE est
        d1  == IF BigLess(r, BigMulSmall(b, d0)) THEN d0 - 1 ELSE d0
    IN  IF BigLess(r, BigMulSmall(b, d1)) THEN d1 - 1 ELSE d1

\* one step: the state [q, r] after the next digit of the quotient
DivStep(s, b) ==
    LET r == BigShlLimbs(s.r, 1)
        d == DivDigit(r, b)
    IN  [q |-> BigAdd(BigShlLimbs(s.q, 1), Big(d)), r |-> BigSub(r, BigMulSmall(b, d))]

\* a / b: the quotient of the significands to 60 bits after the point and a
\* sticky bit, rounded (b is never 0 where count() divides)
FDiv(a, b) ==
    IF BigIsZero(b.m) \/ BigIsZero(a.m) THEN FZero
    ELSE LET an == BigShl(a.m, 7)
             bn == BigShl(b.m, 7)
             s0 == IF BigLess(an, bn) THEN [q |-> Big(0), r |-> an]
                   ELSE [q |-> Big(1), r |-> BigSub(an, bn)]
             s  == DivStep(DivStep(DivStep(DivStep(s0, bn), bn), bn), bn)
             M  == BigAdd(BigAdd(s.q, s.q), Big(IF BigIsZero(s.r) THEN 0 ELSE 1))
         IN  FRound(M, a.e - b.e - 61)

\* the float of the decimal literal n / d
FDec(n, d) == FDiv(FInt(n), FInt(d))

(***************************************************************************)
(* class HyperLogLog.  self is [p, m, registers, alpha]; registers is the  *)
(* bytearray as a function on 0..m-1, alpha the float the constructor      *)
(* computes; raised names the exception the constructor raised, "no" for   *)
(* an object that exists.  p is an integer.  An item is given by the first *)
(* 8 bytes of its SHA-256 digest, which is all add reads of it.            *)
(***************************************************************************)
\* the float literals 0.673, 0.697, 0.709, 0.7213 and 1.079
Alpha16  == FDec(673, 1000)
Alpha32  == FDec(697, 1000)
Alpha64  == FDec(709, 1000)
AlphaNum == FDec(7213, 10000)
AlphaDen == FDec(1079, 1000)

HyperLogLog_init(p) ==
    IF p < 4 \/ p > 18
    THEN [raised |-> "ValueError", p |-> p, m |-> 0, registers |-> <<>>,
          alpha |-> FZero]
    ELSE LET m == 2 ^ p
         IN  [raised |-> "no", p |-> p, m |-> m,
              registers |-> [j \in 0..(m - 1) |-> 0],
              alpha |-> IF m = 16 THEN Alpha16
                        ELSE IF m = 32 THEN Alpha32
                        ELSE IF m = 64 THEN Alpha64
                        \* 0.7213 / (1.0 + 1.079 / self.m)
                        ELSE FDiv(AlphaNum, FAdd(FOne, FScale(AlphaDen, -p)))]

\* int.from_bytes(d[:8], "big", signed=False) of the digest d
hash64(d8) == IntFromBytes(d8)

\* 64 - x.bit_length()
clz64(x) == 64 - bit_length(x)

\* w = x << p, the mask forgotten
suffix_unmasked(x, p) == ShiftLeft(x, p)

\* w = (x << self.p) & ((1 << 64) - 1)
suffix(x, p) == Mask64(ShiftLeft(x, p))

\* j = x >> (64 - self.p)
bucket(x, p) == ToInt(ShiftRight(x, 64 - p))

\* rho of add: 64 - p + 1 if w == 0, else clz64(w) + 1
rho_of(x, p) ==
    LET w == suffix(x, p)
    IN  IF IsZero(w) THEN 64 - p + 1 ELSE clz64(w) + 1

\* registers[j] = rho, whatever it held
store_always(registers, j, rho) == [registers EXCEPT ![j] = rho]

\* if rho > self.registers[j]: self.registers[j] = rho
store_max(registers, j, rho) ==
    IF rho > registers[j] THEN [registers EXCEPT ![j] = rho] ELSE registers

HyperLogLog_add(self, d8) ==
    LET x == hash64(d8)
    IN  [self EXCEPT !.registers = store_max(@, bucket(x, self.p), rho_of(x, self.p))]

\* the loop of count(): inv_sum += 2.0 ** (-r) for the registers lo .. hi in
\* index order, each addition rounded; the range is walked in halves
RECURSIVE inv_sum_loop(_, _, _, _)
inv_sum_loop(acc, registers, lo, hi) ==
    IF lo = hi THEN FAdd(acc, FScale(FOne, -registers[lo]))
    ELSE Apply(LAMBDA half : inv_sum_loop(half, registers, ((lo + hi) \div 2) + 1, hi),
               inv_sum_loop(acc, registers, lo, (lo + hi) \div 2))

\* count().  e is the float alpha * m^2 / inv_sum.  The value returned names
\* the branch taken: "raw" (e is returned), "linear" (m * log(m / zeros)) or
\* "large" (-2^64 * log(1 - e / 2^64)); raised is "ValueError" when math.log
\* is given a number <= 0, which is when e / 2^64 >= 1.0 (below 1.0 the
\* difference is a positive float).  After the linear branch
\* e <= m * log(m) < 2^64 / 30, so the large test fails.
\* 2.5 and (1.0 / 30.0) * (2.0 ** 64)
SmallRange == FDec(5, 2)
LargeRange == FScale(FDiv(FOne, FInt(30)), 64)

HyperLogLog_count(self) ==
    LET inv_sum == inv_sum_loop(FZero, self.registers, 0, self.m - 1)
        zeros   == Cardinality({j \in DOMAIN self.registers : self.registers[j] = 0})
        e       == FDiv(FScale(self.alpha, 2 * self.p), inv_sum)
        \* e <= 2.5 * self.m and zeros > 0
        small   == FLeq(e, FScale(SmallRange, self.p)) /\ zeros > 0
        \* e > (1.0 / 30.0) * (2.0 ** 64)
        large   == ~small /\ FLess(LargeRange, e)
    IN  [branch  |-> IF small THEN "linear" ELSE IF large THEN "large" ELSE "raw",
         zeros   |-> zeros,
         inv_sum |-> inv_sum,
         e       |-> e,
         raised  |-> IF large /\ FLeq(FOne, FScale(e, -64))
                     THEN "ValueError" ELSE "no"]

(***************************************************************************)
(* State.                                                                  *)
(*   bloom    the BloomFilter object                                       *)
(*   added    the items add has returned True for (history)                *)
(*   last     the call in progress or the last call made: op, its          *)
(*            argument, what it returned and the bits before it.  For      *)
(*            check_password_uniqueness it is the loop's accumulator: op   *)
(*            is "checking" inside the loop and "check" once it returned,  *)
(*            batch the items the loop has drawn from new_passwords.       *)
(***************************************************************************)
VARIABLES bloom, added, last, hll, seen, hlast, run, split, log

vars == <<bloom, added, last, hll, seen, hlast, run, split, log>>
bloomVars == <<bloom, added, last>>
hllVars == <<hll, seen, hlast>>

NoCall ==
    [op |-> "new", item |-> PyNone, ret |-> FALSE, before |-> <<>>,
     batch |-> <<>>, labels |-> <<>>, results |-> <<>>, after |-> <<>>,
     calls |-> <<>>]

\* bloom.add(item)
Add(item) ==
    LET r == BloomFilter_add(bloom, item)
    IN  /\ bloom.raised = "no"
        /\ last.op # "checking"
        /\ bloom' = r.self
        /\ added' = IF r.ret THEN added \cup {item} ELSE added
        /\ last' = [NoCall EXCEPT !.op = "add", !.item = item, !.ret = r.ret,
                                  !.before = bloom.bits]
        /\ UNCHANGED <<hllVars, run, split, log>>

\* bloom.contains(item)
Contains(item) ==
    /\ bloom.raised = "no"
    /\ last.op # "checking"
    /\ last' = [NoCall EXCEPT !.op = "contains", !.item = item,
                              !.ret = BloomFilter_contains(bloom, item),
                              !.before = bloom.bits]
    /\ UNCHANGED <<bloom, added, hllVars, run, split, log>>

\* check_password_uniqueness(bloom, new_passwords) is entered: results = {}
CheckBegin ==
    /\ bloom.raised = "no"
    /\ last.op # "checking"
    /\ last' = [NoCall EXCEPT !.op = "checking", !.before = bloom.bits]
    /\ UNCHANGED <<bloom, added, hllVars, run, split, log>>

\* the for loop draws the next item p of new_passwords and runs its body
CheckItem(p) ==
    LET acc == check_step([bloom |-> bloom, results |-> last.results,
                           labels |-> last.labels, after |-> last.after,
                           calls |-> last.calls], p)
    IN  /\ last.op = "checking"
        /\ Len(last.batch) < MaxBatch
        /\ bloom' = acc.bloom
        /\ added' = added \cup {c.item : c \in {x \in {acc.calls[n] : n \in
                                   (Len(last.calls) + 1)..Len(acc.calls)} : x.ret}}
        /\ last' = [last EXCEPT !.batch = Append(@, p), !.results = acc.results,
                                !.labels = acc.labels, !.after = acc.after,
                                !.calls = acc.calls]
        /\ UNCHANGED <<hllVars, run, split, log>>

\* new_passwords is exhausted: return results
CheckReturn ==
    /\ last.op = "checking"
    /\ last' = [last EXCEPT !.op = "check"]
    /\ UNCHANGED <<bloom, added, hllVars, run, split, log>>

BloomNext ==
    \/ \E item \in BloomItems : Add(item)
    \/ \E item \in BloomItems : Contains(item)
    \/ CheckBegin
    \/ \E p \in BloomItems : CheckItem(p)
    \/ CheckReturn


(***************************************************************************)
(* The HyperLogLog object under add and count calls.                       *)
(*   hll      the HyperLogLog object                                       *)
(*   seen     the digests of the items added so far (history)              *)
(*   hlast    the last call: op, the digest added, the registers before    *)
(*            it and what count returned                                   *)
(***************************************************************************)

\* a digest from the bits of its first 8 bytes
PackBits(bits) ==
    [k \in 1..8 |-> ToInt(SubSeq(bits, 8 * k - 7, 8 * k))]

\* the p bits of j, most significant first
BitsOf(j, p) == [k \in 1..p |-> (j \div (2 ^ (p - k))) % 2]

\* hashlib.sha256(s).digest()[:8] of "10.0.0.1", "10.0.0.25", "10.0.0.23",
\* "10.0.0.4" and "10.0.0.7", and the digests 00..00 and 00..01: with p = 4
\* three fall in bucket 15, two in bucket 1 and two in bucket 0
HllDigests ==
    { <<245, 4, 115, 68, 18, 47, 13, 238>>,
      <<240, 52, 20, 159, 230, 3, 53, 251>>,
      <<252, 20, 61, 198, 185, 225, 94, 35>>,
      <<24, 13, 51, 141, 22, 45, 103, 144>>,
      <<19, 14, 77, 171, 169, 120, 96, 19>>,
      <<0, 0, 0, 0, 0, 0, 0, 0>>,
      <<0, 0, 0, 0, 0, 0, 0, 1>> }

\* the precisions of the objects whose calls are followed one by one
HllPrecisions == {3, 4, 5}

NoCount == [branch |-> "none", zeros |-> 0, inv_sum |-> FZero, e |-> FZero,
            raised |-> "no"]

NoHllCall == [op |-> "new", digest |-> <<>>, before |-> <<>>, result |-> NoCount]

\* hll.add(item) for an item whose digest starts with d8
HllAdd(d8) ==
    /\ hll.raised = "no"
    /\ hll' = HyperLogLog_add(hll, d8)
    /\ seen' = seen \cup {d8}
    /\ hlast' = [NoHllCall EXCEPT !.op = "add", !.digest = d8,
                                  !.before = hll.registers]
    /\ UNCHANGED <<bloomVars, run, split, log>>

\* hll.count()
HllCount ==
    /\ hll.raised = "no"
    /\ hlast' = [NoHllCall EXCEPT !.op = "count", !.before = hll.registers,
                                  !.result = HyperLogLog_count(hll)]
    /\ UNCHANGED <<hll, seen, bloomVars, run, split, log>>

HllNext ==
    \/ \E d8 \in HllDigests : HllAdd(d8)
    \/ HllCount

(***************************************************************************)
(* hll_unique_count_stream: one HyperLogLog is created, every item of the  *)
(* stream is added, count() is called once.                                *)
(*   run      the last such call: its precision, the stream it read, the   *)
(*            registers it ended with and what count() did                 *)
(***************************************************************************)

\* a digest of bucket j at precision p whose rho is r, 1 <= r <= 64 - p + 1
DigestFor(j, p, r) ==
    PackBits(BitsOf(j, p) \o [k \in 1..(64 - p) |-> IF k = r THEN 1 ELSE 0])

\* the precisions streams are counted at (alpha = 0.673 and 0.697), and one
\* the constructor refuses
StreamPrecisions == {3, 4, 5}

\* the numbers of buckets the first part of a stream fills
StreamSplits(p) == {0, 1, 2, 2 ^ (p - 1), 2 ^ p - 2, 2 ^ p - 1, 2 ^ p}

\* the rho values streams hold
StreamRhos(p) == {1, 31, 64 - p, 64 - p + 1}

\* the stream with one item for each of the buckets 0 .. n-1, of rho r1, then,
\* if r2 > 0, one item for each of the buckets n .. m-1, of rho r2
StreamOf(p, n, r1, r2) ==
    [k \in 1..(IF r2 > 0 THEN 2 ^ p ELSE n) |->
        DigestFor(k - 1, p, IF k <= n THEN r1 ELSE r2)]

\* for ip in iter_ips_from_log(path): hll.add(ip), for the items lo .. hi of
\* the stream, in halves; nothing is added when the constructor raised
RECURSIVE add_all(_, _, _, _)
add_all(self, stream, lo, hi) ==
    IF self.raised # "no" \/ lo > hi THEN self
    ELSE IF lo = hi THEN HyperLogLog_add(self, stream[lo])
    ELSE Apply(LAMBDA half : add_all(half, stream, ((lo + hi) \div 2) + 1, hi),
               add_all(self, stream, lo, (lo + hi) \div 2))

\* the object after the loop and the outcome of return hll.count()
\* (registers <<>> and raised "ValueError" when the constructor raised)
hll_unique_count_stream(stream, p) ==
    Apply(LAMBDA self :
              IF self.raised # "no"
              THEN [raised |-> self.raised, registers |-> <<>>, result |-> NoCount]
              ELSE [raised |-> "no", registers |-> self.registers,
                    result |-> HyperLogLog_count(self)],
          add_all(HyperLogLog_init(p), stream, 1, Len(stream)))

NoRun == [op |-> "new", p |-> 0, stream |-> <<>>, raised |-> "no",
          registers |-> <<>>, result |-> NoCount]

\* hll_unique_count_stream(path, p), called once by a run of the program
StreamCount(p, n, r1, r2) ==
    /\ run.op = "new"
    /\ \E stream \in {StreamOf(p, n, r1, r2)} :
          \E out \in {hll_unique_count_stream(stream, p)} :
              run' = [op |-> "count", p |-> p, stream |-> stream,
                      raised |-> out.raised, registers |-> out.registers,
                      result |-> out.result]
    /\ UNCHANGED <<bloomVars, hllVars, split, log>>

StreamNext ==
    \E p \in StreamPrecisions :
        \E n \in StreamSplits(p), r1 \in StreamRhos(p), r2 \in StreamRhos(p) \cup {0} :
            StreamCount(p, n, r1, r2)

(***************************************************************************)
(* The split of a hash into bucket and rho that add computes, as a         *)
(* function of the digest and the precision.                               *)
(*   split    the digest and precision given, and once add ran (done) the  *)
(*            j and rho it computed                                        *)
(***************************************************************************)

Ones(n) == [k \in 1..n |-> 1]

\* the first 18 bits of the digests: all 0, all 1, 1010.., 0101.., and a single 1
SplitPrefixes ==
    {Zeros(18), Ones(18), [k \in 1..18 |-> k % 2], [k \in 1..18 |-> (k + 1) % 2]}
        \cup {[k \in 1..18 |-> IF k = z THEN 1 ELSE 0] : z \in 1..18}

\* their last 46 bits: all 0, or z zeros, a 1, and then all 0 or all 1
SplitSuffixes ==
    {Zeros(46)}
        \cup {[k \in 1..46 |-> IF k = z THEN 1 ELSE 0] : z \in 1..46}
        \cup {[k \in 1..46 |-> IF k >= z THEN 1 ELSE 0] : z \in 1..46}

SplitDigests ==
    {PackBits(a \o b) : a \in SplitPrefixes, b \in SplitSuffixes} \cup HllDigests

NoSplit == [d8 |-> <<>>, p |-> 0, j |-> 0, rho |-> 0, done |-> FALSE]

\* the first lines of add: x, j, w and rho
SplitHash ==
    /\ ~split.done
    /\ split' = [split EXCEPT !.done = TRUE,
                              !.j = bucket(hash64(split.d8), split.p),
                              !.rho = rho_of(hash64(split.d8), split.p)]
    /\ UNCHANGED <<bloomVars, hllVars, run, log>>

(***************************************************************************)
(* The log reader and exact_unique_count_stream.  json.loads and           *)
(* ipaddress.ip_address are given by their outcome: a line is blank, is    *)
(* not JSON, or is the JSON value it holds; a string is an address or not. *)
(***************************************************************************)
\* the number of lines of a log file
MaxLines == 2

\* the values of a field of a record: absent, not a string, or a string
Absent     == [t |-> "absent", chars |-> <<>>]
NotString  == [t |-> "other", chars |-> <<>>]
String(s)  == [t |-> "str", chars |-> s]

\* "::1" and "1.2.3.4"
ValidAddresses == {<<58, 58, 49>>, <<49, 46, 50, 46, 51, 46, 52>>}

\* "", " ", "x", "::1", " ::1 , x", "x,::1", " 1.2.3.4 "
FieldValues ==
    { Absent, NotString, String(<<>>), String(<<32>>), String(<<120>>),
      String(<<58, 58, 49>>), String(<<32, 58, 58, 49, 32, 44, 32, 120>>),
      String(<<120, 44, 58, 58, 49>>),
      String(<<32, 49, 46, 50, 46, 51, 46, 52, 32>>) }

\* a line by what json.loads(line) does with it: returns a dict (its two
\* fields) or another JSON value, raises json.JSONDecodeError, or raises
\* another exception (RecursionError on a line of 100000 "[", ValueError on a
\* number of 5000 digits); a blank line is not given to json.loads
Dict(xff, ra) == [kind |-> "json", type |-> "dict", xff |-> xff, ra |-> ra]
Scalar(type)  == [kind |-> "json", type |-> type, xff |-> Absent, ra |-> Absent]
BlankLine     == [kind |-> "blank", type |-> "none", xff |-> Absent, ra |-> Absent]
NotJsonLine   == [kind |-> "badjson", type |-> "none", xff |-> Absent, ra |-> Absent]
RaisingLine(error) == [kind |-> "raises", type |-> error, xff |-> Absent, ra |-> Absent]

\* json.loads(line): the exception raised and the value returned
json_loads(line) ==
    [raised |-> IF line.kind = "badjson" THEN "JSONDecodeError"
                ELSE IF line.kind = "raises" THEN line.type
                ELSE "no",
     obj |-> line]

LogLines ==
    {BlankLine, NotJsonLine, RaisingLine("RecursionError"), RaisingLine("ValueError")}
        \cup {Scalar(t) : t \in {"int", "str", "list", "null"}}
        \cup {Dict(xff, ra) : xff \in FieldValues, ra \in FieldValues}

\* ipaddress.ip_address(s) does not raise ValueError
is_ip_address(s) == s \in ValidAddresses

\* _validate_ip: the stripped string, or None (here <<>>: the callers test "if ip")
validate_ip(s) ==
    LET t == strip(s)
    IN  IF t = <<>> THEN <<>> ELSE IF is_ip_address(t) THEN t ELSE <<>>

\* s.split(",")[0]
RECURSIVE first_token(_)
first_token(s) ==
    IF s = <<>> \/ Head(s) = 44 THEN <<>> ELSE <<Head(s)>> \o first_token(Tail(s))

\* obj.get(name, "") for the two names read
dict_get(field) == IF field.t = "absent" THEN String(<<>>) ELSE field

\* _extract_client_ip(obj): the ip or None (<<>>), or the exception raised
extract_client_ip(obj) ==
    IF obj.type # "dict" THEN [raised |-> "AttributeError", ip |-> <<>>]
    ELSE LET xff == dict_get(obj.xff)
             ra  == dict_get(obj.ra)
             ip1 == IF xff.t = "str" /\ strip(xff.chars) # <<>>
                    THEN validate_ip(strip(first_token(xff.chars))) ELSE <<>>
             ip2 == IF ra.t = "str" /\ strip(ra.chars) # <<>>
                    THEN validate_ip(ra.chars) ELSE <<>>
         IN  [raised |-> "no", ip |-> IF ip1 # <<>> THEN ip1 ELSE ip2]

\*   log      exact_unique_count_stream(path) on a file: the lines of the file,
\*            the number of lines read, the ips yielded, the set seen, and
\*            the state of the call: "reading", "returned" or "raised"

NoLog == [file |-> <<>>, pos |-> 0, yielded |-> <<>>, seen |-> {},
          status |-> "reading", error |-> "no", result |-> 0]

RECURSIVE Files(_)
Files(n) ==
    IF n = 0 THEN {<<>>}
    ELSE Files(n - 1) \cup
            {Append(f, l) : f \in {g \in Files(n - 1) : Len(g) = n - 1}, l \in LogLines}

\* one turn of "for line in f" with the consumer's seen.add(ip) on a yield
LogLine ==
    /\ log.status = "reading"
    /\ log.pos < Len(log.file)
    /\ LET line == log.file[log.pos + 1]
           js   == json_loads(line)
           got  == extract_client_ip(js.obj)
       IN  log' =
             \* if not line: continue;  except json.JSONDecodeError: continue
             IF line.kind = "blank" \/ js.raised = "JSONDecodeError"
             THEN [log EXCEPT !.pos = @ + 1]
             ELSE IF js.raised # "no"
             THEN [log EXCEPT !.pos = @ + 1, !.status = "raised",
                              !.error = js.raised]
             ELSE IF got.raised # "no"
             THEN [log EXCEPT !.pos = @ + 1, !.status = "raised",
                              !.error = got.raised]
             ELSE IF got.ip # <<>>
             THEN [log EXCEPT !.pos = @ + 1, !.yielded = Append(@, got.ip),
                              !.seen = @ \cup {got.ip}]
             ELSE [log EXCEPT !.pos = @ + 1]
    /\ UNCHANGED <<bloomVars, hllVars, run, split>>

\* the file is exhausted: return len(seen)
LogEnd ==
    /\ log.status = "reading"
    /\ log.pos = Len(log.file)
    /\ log' = [log EXCEPT !.status = "returned", !.result = Cardinality(log.seen)]
    /\ UNCHANGED <<bloomVars, hllVars, run, split>>

LogNext == LogLine \/ LogEnd

(***************************************************************************)
(* Initial states.  Each specification exercises one component; the        *)
(* objects of the other components are constructed and never used.         *)
(***************************************************************************)
BloomInit ==
    /\ added = {}
    /\ last = NoCall
    /\ hll = HyperLogLog_init(4)
    /\ seen = {}
    /\ hlast = NoHllCall
    /\ run = NoRun
    /\ split = NoSplit
    /\ log = NoLog
    /\ \E c \in Configs : bloom = BloomFilter_init(c[1], c[2])

HllInit ==
    /\ seen = {}
    /\ hlast = NoHllCall
    /\ bloom = BloomFilter_init(1, 1)
    /\ added = {}
    /\ last = NoCall
    /\ run = NoRun
    /\ split = NoSplit
    /\ log = NoLog
    /\ \E p \in HllPrecisions : hll = HyperLogLog_init(p)

StreamInit ==
    /\ run = NoRun
    /\ bloom = BloomFilter_init(1, 1)
    /\ added = {}
    /\ last = NoCall
    /\ hll = HyperLogLog_init(4)
    /\ seen = {}
    /\ hlast = NoHllCall
    /\ split = NoSplit
    /\ log = NoLog

SplitInit ==
    /\ bloom = BloomFilter_init(1, 1)
    /\ added = {}
    /\ last = NoCall
    /\ hll = HyperLogLog_init(4)
    /\ seen = {}
    /\ hlast = NoHllCall
    /\ run = NoRun
    /\ log = NoLog
    /\ \E d8 \in SplitDigests, p \in 4..18 :
          split = [NoSplit EXCEPT !.d8 = d8, !.p = p]

LogInit ==
    /\ bloom = BloomFilter_init(1, 1)
    /\ added = {}
    /\ last = NoCall
    /\ hll = HyperLogLog_init(4)
    /\ seen = {}
    /\ hlast = NoHllCall
    /\ run = NoRun
    /\ split = NoSplit
    /\ \E f \in Files(MaxLines) : log = [NoLog EXCEPT !.file = f]

Spec == BloomInit /\ [][BloomNext]_vars

SpecHLL == HllInit /\ [][HllNext]_vars

SpecStream == StreamInit /\ [][StreamNext]_vars

SpecRho == SplitInit /\ [][SplitHash]_vars

SpecLog == LogInit /\ [][LogNext]_vars

(***************************************************************************)
(* Properties of the Bloom filter.                                         *)
(***************************************************************************)
\* s is empty or holds whitespace only
AllSpace(s) == \A n \in DOMAIN s : IsSpace(s[n])

\* the filter as it was when its bits were b
BloomAt(b) == [bloom EXCEPT !.bits = b]

\* the bits before the loop of the call in last drew its i-th item
BitsBefore(i) == IF i = 1 THEN last.before ELSE last.after[i - 1]

InCheck == last.op \in {"checking", "check"}

\* C1: no false negatives.  Every item add has returned True for (called
\* directly or from check_password_uniqueness) is reported by contains in every
\* later state, and a contains call on such an item returns True.
NoFalseNegatives ==
    /\ \A it \in added : BloomFilter_contains(bloom, it)
    /\ (last.op = "contains" /\ last.item \in added) => last.ret

\* contains(item) returned True for an added item after another string was added
NoFalseNegativesWitness ==
    /\ last.op = "contains" /\ last.item \in added /\ last.ret
    /\ \E other \in added : normalize(other) # normalize(last.item)

\* C2: each item gets one label; it is invalid iff the item normalizes to an
\* empty or all-whitespace string, otherwise already used iff the filter
\* contains it when it is processed, otherwise unique.
ClassifiedByNormalize ==
    InCheck =>
        \A i \in 1..Len(last.batch) :
            LET it    == last.batch[i]
                blank == AllSpace(normalize(it))
            IN  /\ last.labels[i] \in {INVALID, USED, UNIQUE}
                /\ (last.labels[i] = INVALID) <=> blank
                /\ ~blank =>
                     ((last.labels[i] = USED)
                        <=> BloomFilter_contains(BloomAt(BitsBefore(i)), it))
                /\ ~blank =>
                     ((last.labels[i] = UNIQUE)
                        <=> ~BloomFilter_contains(BloomAt(BitsBefore(i)), it))

\* C3: an item classified unique is in the filter right after it is processed,
\* so a later occurrence in the same call, and a repeat check after the call,
\* classify it as already used.
UniqueIsAdded ==
    InCheck =>
        \A i \in 1..Len(last.batch) :
            last.labels[i] = UNIQUE =>
                /\ BloomFilter_contains(BloomAt(last.after[i]), last.batch[i])
                /\ \A j \in (i + 1)..Len(last.batch) :
                      last.batch[j] = last.batch[i] => last.labels[j] = USED
                /\ check_password_uniqueness(bloom, <<last.batch[i]>>).labels[1] = USED

\* C4: an item whose normalized string is empty or all whitespace is rejected:
\* add returns False and leaves every byte of the bit array as it was, and
\* contains returns False.
InvalidRejected ==
    /\ (last.op = "add" /\ AllSpace(normalize(last.item)))
          => (~last.ret /\ bloom.bits = last.before)
    /\ (last.op = "contains" /\ AllSpace(normalize(last.item))) => ~last.ret
    /\ \A it \in BloomItems :
          AllSpace(normalize(it)) =>
              /\ BloomFilter_add(bloom, it) = [self |-> bloom, ret |-> FALSE]
              /\ ~BloomFilter_contains(bloom, it)

\* add rejected a non-str value printing as whitespace, on a filter holding bits
InvalidRejectedWitness ==
    /\ last.op = "add" /\ last.item.kind = "obj" /\ AllSpace(normalize(last.item))
    /\ ~last.ret
    /\ \E b \in DOMAIN bloom.bits : bloom.bits[b] # 0

IsUniquePair(x) == x[2] = UNIQUE

\* C7: the returned dict is keyed by the items' string forms and an entry holds
\* the label of the last item with that string form; whatever the dict keeps,
\* the filter is mutated in sequence order, exactly once per item labelled
\* unique: there is one add call per such item, in order, each is accepted and
\* changes the bits, and no other item changes them.
LastWriteWins ==
    last.op = "check" =>
        LET n    == Len(last.batch)
            keys == {dict_key(last.batch[i]) : i \in 1..n}
            LastIdx(k) ==
                CHOOSE i \in 1..n :
                    /\ dict_key(last.batch[i]) = k
                    /\ \A j \in (i + 1)..n : dict_key(last.batch[j]) # k
            uniques == SelectSeq([i \in 1..n |-> <<last.batch[i], last.labels[i]>>],
                                 IsUniquePair)
        IN  /\ DOMAIN last.results = keys
            /\ \A k \in keys : last.results[k] = last.labels[LastIdx(k)]
            /\ [c \in 1..Len(last.calls) |-> last.calls[c].item]
                  = [c \in 1..Len(uniques) |-> uniques[c][1]]
            /\ \A c \in 1..Len(last.calls) : last.calls[c].ret
            /\ \A i \in 1..n :
                  IF last.labels[i] = UNIQUE
                  THEN /\ last.after[i] # BitsBefore(i)
                       /\ last.after[i] =
                             BloomFilter_add(BloomAt(BitsBefore(i)), last.batch[i]).self.bits
                  ELSE last.after[i] = BitsBefore(i)
            /\ bloom.bits = BitsBefore(n + 1)

\* C8: no step clears a set bit, the filter's size is fixed, and contains
\* changes no bit.
BitsMonotonic ==
    [][ /\ bloom'.size = bloom.size
        /\ \A idx \in 0..(bloom.size - 1) :
              get_bit(bloom, idx) = 1 => get_bit(bloom', idx) = 1
        /\ last'.op = "contains" => bloom' = bloom ]_vars

\* an add set a bit of a filter that already held bits
BitsMonotonicWitness ==
    /\ last.op = "add" /\ last.ret
    /\ bloom.bits # last.before
    /\ \E b \in DOMAIN last.before : last.before[b] # 0

(***************************************************************************)
(* Properties of HyperLogLog.                                              *)
(***************************************************************************)
MaxOf(S) == CHOOSE v \in S : \A u \in S : u <= v

\* the rho values of the digests seen that fall in bucket j
RhosOfBucket(j) ==
    {rho_of(hash64(d8), hll.p) : d8 \in {e \in seen : bucket(hash64(e), hll.p) = j}}

\* C5: every register holds the largest rho of the items added so far that
\* fall in its bucket, 0 if there is none; no add or count call lowers a
\* register, count changes none, and add changes at most the register of the
\* item's bucket.
RegistersHoldMax ==
    /\ \A j \in 0..(hll.m - 1) :
          hll.registers[j] = MaxOf(RhosOfBucket(j) \cup {0})
    /\ hlast.op \in {"add", "count"} =>
          \A j \in 0..(hll.m - 1) : hll.registers[j] >= hlast.before[j]
    /\ hlast.op = "count" => hll.registers = hlast.before
    /\ hlast.op = "add" =>
          \A j \in 0..(hll.m - 1) :
              j # bucket(hash64(hlast.digest), hll.p)
                  => hll.registers[j] = hlast.before[j]

\* an item was added whose rho is below what its bucket already held, with
\* another bucket filled as well: the register kept the larger value
RegistersHoldMaxWitness ==
    /\ hlast.op = "add"
    /\ rho_of(hash64(hlast.digest), hll.p)
          < hll.registers[bucket(hash64(hlast.digest), hll.p)]
    /\ Cardinality({j \in 0..(hll.m - 1) : hll.registers[j] > 0}) >= 2

\* C9: count() always returns: the sum of 2^(-register) is not zero, and when
\* the large-range correction applies e < 2^64, so the logarithm is defined.
CountAlwaysReturns ==
    run.op = "count" /\ run.raised = "no" =>
        /\ run.result.raised = "no"
        /\ ~BigIsZero(run.result.inv_sum.m)
        /\ run.result.branch = "large" => FLess(run.result.e, FScale(FOne, 64))

\* the low 64 - p bits of the hash, as a (64 - p)-bit value
RefSuffix(x, p) == [k \in 1..(64 - p) |-> x[p + k]]

\* the number of 0 bits before the first 1 bit of b
RefLeadingZeros(b) ==
    Cardinality({k \in DOMAIN b : \A l \in 1..k : b[l] = 0})

\* the top p bits of the hash as a number
RECURSIVE RefTop(_, _)
RefTop(x, p) == IF p = 0 THEN 0 ELSE 2 * RefTop(x, p - 1) + x[p]

\* C10: the j and rho that add computes by shifting are the top p bits of the
\* hash and 1 plus the number of leading zero bits of its low 64 - p bits
\* (64 - p + 1 when they are all zero); 0 <= j < 2^p and 1 <= rho <= 64 - p + 1.
SplitMatchesReference ==
    split.done =>
        LET x == IntFromBytes(split.d8)
            b == RefSuffix(x, split.p)
        IN  /\ split.j = RefTop(x, split.p)
            /\ split.j >= 0 /\ split.j < 2 ^ split.p
            /\ split.rho = IF \A k \in DOMAIN b : b[k] = 0
                           THEN (64 - split.p) + 1
                           ELSE 1 + RefLeadingZeros(b)
            /\ split.rho >= 1 /\ split.rho <= 64 - split.p + 1

\* a hash with every bucket bit set and only the last bit of the suffix set,
\* split at a precision above 4: j is the last bucket and rho is 64 - p
SplitMatchesReferenceWitness ==
    /\ split.done
    /\ split.p > 4
    /\ split.j = 2 ^ split.p - 1
    /\ split.rho = 64 - split.p

(***************************************************************************)
(* Properties of the log reader.                                           *)
(***************************************************************************)
\* C6: reading never raises, whatever the lines hold: blank lines, lines that
\* are not JSON, JSON values that are not records and records without a valid
\* address are skipped, and only valid addresses are yielded.
LogNeverRaises ==
    /\ log.status # "raised"
    /\ \A k \in DOMAIN log.yielded : log.yielded[k] \in ValidAddresses
    /\ Len(log.yielded)
          <= Cardinality({k \in 1..log.pos :
                             log.file[k].kind = "json" /\ log.file[k].type = "dict"})

=============================================================================
